---- MODULE Spec2Model ----
(***************************************************************************)
(* The ensemble decision core of the ml-models service                     *)
(* (src/services/ml-models/src/models/ensemble_predictor.py) together with *)
(* the configuration it reads (utils/config.py).                           *)
(*                                                                         *)
(* Python floats are modelled as rationals <<n, d>> in lowest terms with    *)
(* d > 0, so equal values are equal tuples.  Every float operation rounds  *)
(* its exact value to mant_dig significant bits, to nearest and ties to    *)
(* even, as IEEE 754 does with 53 bits; the exponent range is unbounded.   *)
(* The service specifications carry the arithmetic out unrounded           *)
(* (mant_dig = 0); the combiner bench also runs it with MantDig bits.      *)
(* time.time() is the variable now, in seconds.                            *)
(***************************************************************************)
EXTENDS Integers, Sequences, FiniteSets, TLC

VARIABLES
    now,                  \* time.time(), seconds
    prediction_cache,     \* EnsemblePredictor.prediction_cache: key -> (result, timestamp)
    cache_order,          \* insertion order of the dict's keys (what min() iterates)
    model_weights,        \* EnsemblePredictor.model_weights: name -> weight
    strategy,             \* EnsemblePredictor.strategy
    confidence_threshold, \* EnsemblePredictor.confidence_threshold
    models,               \* ModelManager.models: the loaded model names
    req,                  \* the predict() coroutines in flight
    ret,                  \* what the last finished predict() call gave its caller
    call,                 \* a direct call of one method: its arguments and its value
    mant_dig,             \* significant bits a float keeps (sys.float_info.mant_dig)
    coroutines,           \* coroutines besides predict: lifespan, BackgroundTasks.add_task
    model_lock,           \* ModelManager.model_lock: the task holding it, or Unlocked
    metrics_collector     \* MetricsCollector: its counters

vars == <<now, prediction_cache, cache_order, model_weights, strategy,
          confidence_threshold, models, req, ret, call, mant_dig,
          coroutines, model_lock, metrics_collector>>

-----------------------------------------------------------------------------
(* Bounds of the model *)

\* fraud_probability inputs of the decision bench are k / ProbGrid
ProbGrid == 100
\* confidence inputs of the decision bench are k / ConfGrid
ConfGrid == 10
\* predict() coroutines that may be in flight at once
MaxInFlight == 1
\* the clock stops after this many ticks
MaxTicks == 2
\* load_all_models loaded at most this many models at startup (Spec)
MaxLoaded == 1
\* load_all_models loaded at most this many models at startup (SpecScorer)
MaxScored == 2
\* the combiner bench combines the results of at most this many models
MaxCombined == 3
\* the significand width of the combiner bench, standing for the 53 bits of
\* a Python float
MantDig == 6

\* the features dict of the explainer bench has at most this many entries
MaxFeatures == 11
\* the metrics bench serves at most this many /predict requests
MaxRecorded == 3
\* the manager bench starts at most this many reloads after startup
MaxReloads == 2
\* prediction inputs of the confidence bench include k / BinaryGrid
BinaryGrid == 32

-----------------------------------------------------------------------------
(* Float arithmetic *)

Abs(i) == IF i < 0 THEN -i ELSE i

RECURSIVE GCD(_, _)
GCD(a, b) == IF b = 0 THEN a ELSE GCD(b, a % b)

RECURSIVE Pow2(_)
Pow2(k) == IF k = 0 THEN 1 ELSE 2 * Pow2(k - 1)

\* n / d with the common factor g taken out
Reduced(n, d, g) == <<n \div g, d \div g>>

\* the exact value n / d in lowest terms with a positive denominator (d # 0)
Q(n, d) == Reduced(IF d < 0 THEN -n ELSE n, Abs(d), GCD(Abs(n), Abs(d)))

\* num / den * 2^e rewritten, value unchanged, with num / den in
\* [2^(bits-1), 2^bits)
RECURSIVE Normalize(_, _, _, _)
Normalize(num, den, e, bits) ==
    IF num >= Pow2(bits) * den
    THEN IF num % 2 = 0 THEN Normalize(num \div 2, den, e + 1, bits)
         ELSE Normalize(num, 2 * den, e + 1, bits)
    ELSE IF num < Pow2(bits - 1) * den
    THEN IF den % 2 = 0 THEN Normalize(num, den \div 2, e - 1, bits)
         ELSE Normalize(2 * num, den, e - 1, bits)
    ELSE <<num, den, e>>

\* the integer nearest to m + r / den (0 <= r < den), ties to even
Nearest(m, r, den) ==
    IF 2 * r > den \/ (2 * r = den /\ m % 2 = 1) THEN m + 1 ELSE m

\* the value sig * 2^e
Scaled(sig, e) == IF e >= 0 THEN Q(sig * Pow2(e), 1) ELSE Q(sig, Pow2(-e))

\* sign * t[1] / t[2] * 2^t[3], t as Normalize gives it, with its significand
\* rounded to an integer
RoundedSignificand(t, sign) ==
    Scaled(sign * Nearest(t[1] \div t[2], t[1] % t[2], t[2]), t[3])

\* the float nearest to the exact value x: x rounded to mant_dig significant
\* bits, ties to the even significand
Fl(x) ==
    IF mant_dig = 0 \/ x[1] = 0 THEN x
    ELSE RoundedSignificand(Normalize(Abs(x[1]), x[2], 0, mant_dig),
                            IF x[1] < 0 THEN -1 ELSE 1)

\* the float n / d: a literal of the source, or the value of a float division
Rat(n, d) == Fl(Q(n, d))

Zero == <<0, 1>>
One == <<1, 1>>
Half == <<1, 2>>

\* a + b for denominators of greatest common divisor g
SumOver(a, b, g) ==
    Rat(a[1] * (b[2] \div g) + b[1] * (a[2] \div g), (a[2] \div g) * b[2])

\* the product of the exact values x and y
Product(x, y) == Rat(x[1] * y[1], x[2] * y[2])

\* a + b, a - b, a * b, a / b: the exact value (common factors taken out
\* before multiplying), rounded
RAdd(a, b) == SumOver(a, b, GCD(a[2], b[2]))
RSub(a, b) == RAdd(a, <<-b[1], b[2]>>)
RMul(a, b) == Product(Q(a[1], b[2]), Q(b[1], a[2]))
RDiv(a, b) == RMul(a, Q(b[2], b[1]))
RLt(a, b) == a[1] * b[2] < b[1] * a[2]
RLe(a, b) == a[1] * b[2] <= b[1] * a[2]
RGe(a, b) == RLe(b, a)
RGt(a, b) == RLt(b, a)
RAbs(a) == <<Abs(a[1]), a[2]>>
RMin(a, b) == IF RLt(b, a) THEN b ELSE a
RMax(a, b) == IF RGt(b, a) THEN b ELSE a
InUnit(a) == RLe(Zero, a) /\ RLe(a, One)

-----------------------------------------------------------------------------
(* Configuration: utils/config.py *)

\* Config.models in the order setup_model_configs builds the dict
ModelNames ==
    <<"xgboost_primary", "lstm_sequential", "bert_text", "graph_neural",
      "isolation_forest">>

ModelSet == {ModelNames[i] : i \in 1..Len(ModelNames)}

\* ModelConfig.weight of each configured model
ConfigWeight ==
    [m \in ModelSet |->
        CASE m = "xgboost_primary" -> Rat(40, 100)
          [] m = "lstm_sequential" -> Rat(25, 100)
          [] m = "bert_text" -> Rat(15, 100)
          [] m = "graph_neural" -> Rat(15, 100)
          [] m = "isolation_forest" -> Rat(5, 100)]

\* Config.get_enabled_models: every configured model has enabled=True
get_enabled_models == ModelSet

\* EnsembleConfig defaults
DefaultConfidenceThreshold == Rat(7, 10)
fraud_threshold == Rat(5, 10)
Strategies == {"weighted_average", "voting", "stacking"}

\* Config.prediction_timeout_seconds (PREDICTION_TIMEOUT_SECONDS default 5.0)
prediction_timeout_seconds == 5

\* the subsequence of s whose elements are in S
RECURSIVE SelectIn(_, _)
SelectIn(s, S) ==
    IF s = <<>> THEN <<>>
    ELSE IF Head(s) \in S THEN <<Head(s)>> \o SelectIn(Tail(s), S)
         ELSE SelectIn(Tail(s), S)

-----------------------------------------------------------------------------
(* Parallel scorer: the pure part of one scoring call *)

\* model_confidence_multiplier.get(model_name, 0.5)
model_confidence_multiplier(model_name) ==
    CASE model_name = "xgboost_primary" -> Rat(10, 10)
      [] model_name = "lstm_sequential" -> Rat(8, 10)
      [] model_name = "bert_text" -> Rat(7, 10)
      [] model_name = "graph_neural" -> Rat(6, 10)
      [] model_name = "isolation_forest" -> Rat(5, 10)
      [] OTHER -> Rat(5, 10)

\* _calculate_model_confidence without the scaling by 2
_calculate_model_confidence_unscaled(prediction, model_name) ==
    LET distance_from_threshold == RAbs(RSub(prediction, Half))
        multiplier == model_confidence_multiplier(model_name)
    IN  RMin(One, RMul(distance_from_threshold, multiplier))

\* EnsemblePredictor._calculate_model_confidence
_calculate_model_confidence(prediction, model_name) ==
    LET distance_from_threshold == RAbs(RSub(prediction, Half))
        multiplier == model_confidence_multiplier(model_name)
        confidence == RMul(RMul(distance_from_threshold, Rat(2, 1)), multiplier)
    IN  RMin(One, confidence)

\* EnsemblePredictor._predict_single_model once model_manager.predict has
\* returned raw: the PredictionResult (its processing_time_ms is read by
\* nothing and is left out)
_predict_single_model(model_name, raw) ==
    LET fraud_prob == RMax(Zero, RMin(One, raw))
    IN  [model_name |-> model_name,
         prediction |-> fraud_prob,
         confidence |-> _calculate_model_confidence(fraud_prob, model_name)]

-----------------------------------------------------------------------------
(* Combiner *)

\* sum(s), and total += x over s: the floats of s added one by one, from the
\* first to the last, onto 0
RECURSIVE RSumSeq(_)
RSumSeq(s) ==
    IF s = <<>> THEN Zero ELSE RAdd(RSumSeq(SubSeq(s, 1, Len(s) - 1)), s[Len(s)])

\* the weight a model was configured with, whatever the table holds now
WeightOf_configured(name) ==
    IF name \in ModelSet THEN ConfigWeight[name] ELSE Zero

\* self.model_weights.get(name, 0.0)
WeightOf(name) ==
    IF name \in DOMAIN model_weights THEN model_weights[name] ELSE Zero

\* _weighted_average_ensemble with every responding model weighted alike
_weighted_average_ensemble_unweighted(predictions) ==
    LET idx == 1..Len(predictions)
        n == Rat(Len(predictions), 1)
    IN  [fraud_probability |->
            RDiv(RSumSeq([i \in idx |-> predictions[i].prediction]), n),
         confidence |->
            RDiv(RSumSeq([i \in idx |-> predictions[i].confidence]), n)]

\* _weighted_average_ensemble answering "no fraud, for certain" when the
\* weights of the responding models sum to zero
_weighted_average_ensemble_confident(predictions) ==
    LET idx == 1..Len(predictions)
        weight == [i \in idx |-> WeightOf(predictions[i].model_name)]
        weighted_sum == RSumSeq([i \in idx |-> RMul(predictions[i].prediction, weight[i])])
        confidence_sum == RSumSeq([i \in idx |-> RMul(predictions[i].confidence, weight[i])])
        total_weight == RSumSeq(weight)
    IN  IF total_weight = Zero
        THEN [fraud_probability |-> Zero, confidence |-> One]
        ELSE [fraud_probability |-> RDiv(weighted_sum, total_weight),
              confidence |-> RDiv(confidence_sum, total_weight)]

\* EnsemblePredictor._weighted_average_ensemble
_weighted_average_ensemble(predictions) ==
    LET idx == 1..Len(predictions)
        weight == [i \in idx |-> WeightOf(predictions[i].model_name)]
        weighted_sum == RSumSeq([i \in idx |-> RMul(predictions[i].prediction, weight[i])])
        confidence_sum == RSumSeq([i \in idx |-> RMul(predictions[i].confidence, weight[i])])
        total_weight == RSumSeq(weight)
    IN  IF total_weight = Zero
        THEN [fraud_probability |-> Half, confidence |-> Zero]
        ELSE [fraud_probability |-> RDiv(weighted_sum, total_weight),
              confidence |-> RDiv(confidence_sum, total_weight)]

\* _voting_ensemble counting a prediction equal to fraud_threshold as a vote
\* for fraud
_voting_ensemble_inclusive(predictions) ==
    LET idx == 1..Len(predictions)
        fraud_votes == Cardinality({i \in idx : RGe(predictions[i].prediction, fraud_threshold)})
        total_votes == Len(predictions)
        confidence_sum == RSumSeq([i \in idx |-> predictions[i].confidence])
    IN  [fraud_probability |->
            IF total_votes > 0 THEN Rat(fraud_votes, total_votes) ELSE Zero,
         confidence |->
            IF total_votes > 0 THEN RDiv(confidence_sum, Rat(total_votes, 1)) ELSE Zero]

\* EnsemblePredictor._voting_ensemble
_voting_ensemble(predictions) ==
    LET idx == 1..Len(predictions)
        fraud_votes == Cardinality({i \in idx : RGt(predictions[i].prediction, fraud_threshold)})
        total_votes == Len(predictions)
        confidence_sum == RSumSeq([i \in idx |-> predictions[i].confidence])
    IN  [fraud_probability |->
            IF total_votes > 0 THEN Rat(fraud_votes, total_votes) ELSE Zero,
         confidence |->
            IF total_votes > 0 THEN RDiv(confidence_sum, Rat(total_votes, 1)) ELSE Zero]

\* _stacking_ensemble averaging the predictions without their confidences
_stacking_ensemble_unweighted(predictions) ==
    LET idx == 1..Len(predictions)
        total_confidence == RSumSeq([i \in idx |-> predictions[i].confidence])
        n == Rat(Len(predictions), 1)
    IN  IF total_confidence = Zero
        THEN _weighted_average_ensemble(predictions)
        ELSE [fraud_probability |->
                 RDiv(RSumSeq([i \in idx |-> predictions[i].prediction]), n),
              confidence |-> RDiv(total_confidence, n)]

\* EnsemblePredictor._stacking_ensemble
_stacking_ensemble(predictions) ==
    LET idx == 1..Len(predictions)
        total_confidence == RSumSeq([i \in idx |-> predictions[i].confidence])
        weighted_sum ==
            RSumSeq([i \in idx |-> RMul(predictions[i].prediction, predictions[i].confidence)])
    IN  IF total_confidence = Zero
        THEN _weighted_average_ensemble(predictions)
        ELSE [fraud_probability |-> RDiv(weighted_sum, total_confidence),
              confidence |-> RDiv(total_confidence, Rat(Len(predictions), 1))]

\* EnsemblePredictor._combine_predictions
_combine_predictions(model_predictions) ==
    CASE strategy = "weighted_average" -> _weighted_average_ensemble(model_predictions)
      [] strategy = "voting" -> _voting_ensemble(model_predictions)
      [] strategy = "stacking" -> _stacking_ensemble(model_predictions)

-----------------------------------------------------------------------------
(* Decision policy *)

\* _make_decision without its confidence gate
_make_decision_ungated(fraud_probability, confidence) ==
    IF RGe(fraud_probability, Rat(95, 100)) THEN "DECLINE"
    ELSE IF RGe(fraud_probability, Rat(8, 10)) THEN "REVIEW"
    ELSE IF RGe(fraud_probability, Rat(6, 10)) THEN "APPROVE_WITH_MONITORING"
    ELSE "APPROVE"

\* _make_decision with the REVIEW band open at 0.8
_make_decision_strict(fraud_probability, confidence) ==
    IF RLt(confidence, confidence_threshold) THEN "REVIEW"
    ELSE IF RGe(fraud_probability, Rat(95, 100)) THEN "DECLINE"
    ELSE IF RGt(fraud_probability, Rat(8, 10)) THEN "REVIEW"
    ELSE IF RGe(fraud_probability, Rat(6, 10)) THEN "APPROVE_WITH_MONITORING"
    ELSE "APPROVE"

\* EnsemblePredictor._make_decision
_make_decision(fraud_probability, confidence) ==
    IF RLt(confidence, confidence_threshold) THEN "REVIEW"
    ELSE IF RGe(fraud_probability, Rat(95, 100)) THEN "DECLINE"
    ELSE IF RGe(fraud_probability, Rat(8, 10)) THEN "REVIEW"
    ELSE IF RGe(fraud_probability, Rat(6, 10)) THEN "APPROVE_WITH_MONITORING"
    ELSE "APPROVE"

\* _calculate_risk_level with the MEDIUM band starting at the confidence
\* threshold
_calculate_risk_level_gated(fraud_probability) ==
    IF RGe(fraud_probability, Rat(95, 100)) THEN "CRITICAL"
    ELSE IF RGe(fraud_probability, Rat(8, 10)) THEN "HIGH"
    ELSE IF RGe(fraud_probability, confidence_threshold) THEN "MEDIUM"
    ELSE IF RGe(fraud_probability, Rat(3, 10)) THEN "LOW"
    ELSE "VERY_LOW"

\* EnsemblePredictor._calculate_risk_level
_calculate_risk_level(fraud_probability) ==
    IF RGe(fraud_probability, Rat(95, 100)) THEN "CRITICAL"
    ELSE IF RGe(fraud_probability, Rat(8, 10)) THEN "HIGH"
    ELSE IF RGe(fraud_probability, Rat(6, 10)) THEN "MEDIUM"
    ELSE IF RGe(fraud_probability, Rat(3, 10)) THEN "LOW"
    ELSE "VERY_LOW"

-----------------------------------------------------------------------------
(* Explainer *)

None == "None"

\* dict.get(key, default)
Get(d, key, default) == IF key \in DOMAIN d THEN d[key] ELSE default

\* the importance threshold and the number of features kept
importance_threshold == Rat(1, 10)
top_features == 10

\* sorted(items, key=importance, reverse=True): stable, so equal keys keep
\* their order; items are <<name, importance>>
RECURSIVE InsertDesc(_, _)
InsertDesc(x, s) ==
    IF s = <<>> THEN <<x>>
    ELSE IF RGe(Head(s)[2], x[2]) THEN <<Head(s)>> \o InsertDesc(x, Tail(s))
         ELSE <<x>> \o s

RECURSIVE SortedDesc(_)
SortedDesc(s) ==
    IF s = <<>> THEN <<>>
    ELSE InsertDesc(s[Len(s)], SortedDesc(SubSeq(s, 1, Len(s) - 1)))

\* the feature_importance part of _generate_explanation; feature_values is
\* the features['features'] dict as a sequence of [name, numeric, value]
feature_importance(feature_values) ==
    LET numeric == SelectSeq(feature_values, LAMBDA e : e.numeric)
        scored == [i \in 1..Len(numeric) |->
                      <<numeric[i].name, RMin(RAbs(numeric[i].value), One)>>]
        important_features == SelectSeq(scored, LAMBDA e : RGt(e[2], importance_threshold))
        sorted_features == SortedDesc(important_features)
    IN  SubSeq(sorted_features, 1,
               IF Len(sorted_features) < top_features THEN Len(sorted_features)
               ELSE top_features)

\* the key_factors part of _generate_explanation
key_factors(features) ==
    LET amount == Get(features, "amount", 0)
        hour_of_day == Get(features, "hour_of_day", 12)
        payment_method == Get(features, "payment_method", "")
    IN  (IF amount > 10000 THEN <<<<"High transaction amount", amount>>>>
         ELSE IF amount < 1 THEN <<<<"Unusual low amount", amount>>>>
         ELSE <<>>)
        \o (IF hour_of_day < 6 \/ hour_of_day > 22
            THEN <<<<"Off-hours transaction", hour_of_day>>>> ELSE <<>>)
        \o (IF payment_method \in {"crypto", "gift_card"}
            THEN <<<<"High-risk payment method", payment_method>>>> ELSE <<>>)

\* EnsemblePredictor._generate_explanation
_generate_explanation(predictions, features) ==
    LET idx == 1..Len(predictions)
        total_weight == RSumSeq([i \in idx |-> WeightOf(predictions[i].model_name)])
        names == {predictions[i].model_name : i \in idx}
        of(m) == predictions[CHOOSE i \in idx : predictions[i].model_name = m]
    IN  [model_contributions |->
            [m \in names |->
                [prediction |-> of(m).prediction,
                 weight |-> WeightOf(m),
                 contribution |->
                    IF RGt(total_weight, Zero)
                    THEN RDiv(RMul(of(m).prediction, WeightOf(m)), total_weight)
                    ELSE Zero,
                 confidence |-> of(m).confidence]],
         key_factors |-> key_factors(features),
         feature_importance |->
            IF "features" \in DOMAIN features
            THEN feature_importance(features.features) ELSE <<>>]

\* _generate_explanation raises: `hour_of_day < 6` (line 403) is a TypeError
\* when features carries hour_of_day as None. The feature dicts of the model
\* either leave hour_of_day out or carry it as None.
_generate_explanation_raises(features) ==
    "hour_of_day" \in DOMAIN features /\ features.hour_of_day = None

\* EnsembleConfig.enable_explanation (ENABLE_EXPLANATION default true)
enable_explanation == TRUE

-----------------------------------------------------------------------------
(* Prediction cache *)

\* EnsemblePredictor.cache_ttl_seconds
cache_ttl_seconds == 300

\* the entry count above which _cache_prediction evicts: the literal 1000 of
\* the source, scaled down so that a run can fill the cache
CacheLimit == 1

\* str(features.get(name, "")): an amount is a float and prints as "<n>.0"
FieldStr(features, name) ==
    IF name \notin DOMAIN features THEN ""
    ELSE IF name = "amount" THEN ToString(features[name]) \o ".0"
    ELSE features[name]

\* a key that is made of the currency as well
_generate_cache_key_with_currency(features) ==
    FieldStr(features, "transaction_id") \o "_" \o FieldStr(features, "amount")
    \o "_" \o FieldStr(features, "user_id") \o "_" \o FieldStr(features, "merchant_id")
    \o "_" \o FieldStr(features, "payment_method") \o "_" \o FieldStr(features, "currency")

\* EnsemblePredictor._generate_cache_key
_generate_cache_key(features) ==
    FieldStr(features, "transaction_id") \o "_" \o FieldStr(features, "amount")
    \o "_" \o FieldStr(features, "user_id") \o "_" \o FieldStr(features, "merchant_id")
    \o "_" \o FieldStr(features, "payment_method")

\* the test of _get_cached_prediction with <= for <
Unexpired_inclusive(timestamp) == now - timestamp <= cache_ttl_seconds

\* the test of _get_cached_prediction: time.time() - timestamp < cache_ttl_seconds
Unexpired(timestamp) == now - timestamp < cache_ttl_seconds

\* _get_cached_prediction finds an entry and the entry is unexpired
CacheHit(cache_key) ==
    /\ cache_key \in DOMAIN prediction_cache
    /\ Unexpired(prediction_cache[cache_key].timestamp)

\* what _get_cached_prediction returns
_get_cached_prediction(cache_key) ==
    IF CacheHit(cache_key) THEN prediction_cache[cache_key].result ELSE None

\* del d[key] on the dict (cache, order)
DelKey(d, key) ==
    [cache |-> [k \in DOMAIN d.cache \ {key} |-> d.cache[k]],
     order |-> SelectSeq(d.order, LAMBDA k : k # key)]

\* d[key] = value on a store that appends an entry for every write
SetKey_append(d, key, value) ==
    [cache |-> [k \in DOMAIN d.cache \cup {key} |-> IF k = key THEN value ELSE d.cache[k]],
     order |-> Append(d.order, key)]

\* d[key] = value: a new key goes last, an old one keeps its place
SetKey(d, key, value) ==
    [cache |-> [k \in DOMAIN d.cache \cup {key} |-> IF k = key THEN value ELSE d.cache[k]],
     order |-> IF key \in DOMAIN d.cache THEN d.order ELSE Append(d.order, key)]

TheCache == [cache |-> prediction_cache, order |-> cache_order]

\* the dict _get_cached_prediction leaves: an expired entry is deleted
AfterGet(cache_key) ==
    IF cache_key \in DOMAIN prediction_cache /\ ~CacheHit(cache_key)
    THEN DelKey(TheCache, cache_key)
    ELSE TheCache

\* min(keys, key=timestamp): the first key, in dict order, of least timestamp
OldestKey(d) ==
    LET i == CHOOSE i \in 1..Len(d.order) :
                 /\ \A j \in 1..Len(d.order) :
                        d.cache[d.order[i]].timestamp <= d.cache[d.order[j]].timestamp
                 /\ \A j \in 1..(i - 1) :
                        d.cache[d.order[j]].timestamp > d.cache[d.order[i]].timestamp
    IN  d.order[i]

\* the size test of _cache_prediction: len(self.prediction_cache) > 1000
OverLimit(d) == Cardinality(DOMAIN d.cache) > CacheLimit

\* EnsemblePredictor._cache_prediction: the dict it leaves
_cache_prediction(d, cache_key, result) ==
    SetKey(IF OverLimit(d) THEN DelKey(d, OldestKey(d)) ELSE d,
           cache_key, [result |-> result, timestamp |-> now])

-----------------------------------------------------------------------------
(* predict(): one coroutine per slot; it suspends only at `await task` *)

Slots == 1..MaxInFlight

\* the clock advances in steps of half the time to live
SecondsPerTick == cache_ttl_seconds \div 2

\* what the scorers may return before clamping
RawPredictions == {Zero, Rat(3, 2)}

\* the transactions that are scored: enough distinct keys to overfill the cache
NumTransactions == CacheLimit + 2

Transaction(i, currency) ==
    [transaction_id |-> "t" \o ToString(i), amount |-> 100, user_id |-> "u1",
     merchant_id |-> "m1", payment_method |-> "card", currency |-> currency,
     features |-> <<>>]

\* the processed feature dicts handed to predict(); transaction 1 arrives in
\* two forms that differ outside the fields of the cache key
FeatureSet ==
    {Transaction(i, "USD") : i \in 1..NumTransactions} \cup {Transaction(1, "EUR")}

IdleReq == [pc |-> "idle"]

\* the place of a features dict or a result dict where there is none
Absent == <<>>

NoReturn ==
    [kind |-> "none", features |-> Absent, hit |-> FALSE, purged |-> FALSE,
     tasks |-> <<>>, result |-> Absent, error |-> None]
NoCall == [fn |-> "none"]

\* asyncio.Lock(): not held by any task
Unlocked == 0

\* MetricsCollector.__init__: the real-time counters, the length of
\* prediction_history, and the samples of ml_predictions_total for
\* model_name="ensemble"
MetricsCollector ==
    [prediction_count |-> 0, fraud_detections |-> 0, declined_transactions |-> 0,
     prediction_history |-> 0, predictions_total |-> 0]

\* no background task scheduled, model_lock free, no metric recorded
NoBackground ==
    /\ coroutines = <<>>
    /\ model_lock = Unlocked
    /\ metrics_collector = MetricsCollector

\* ModelManager.is_model_loaded
is_model_loaded(name) == name \in models

\* enabled_models without the is_model_loaded filter
EnabledLoaded_unfiltered == SelectIn(ModelNames, get_enabled_models)

\* enabled_models of _get_model_predictions, in dict order
EnabledLoaded == SelectIn(ModelNames, {m \in get_enabled_models : is_model_loaded(m)})

\* EnsemblePredictor._get_model_weights
_get_model_weights ==
    LET enabled == SelectIn(ModelNames, get_enabled_models)
        total_weight == RSumSeq([i \in 1..Len(enabled) |-> ConfigWeight[enabled[i]]])
    IN  [m \in get_enabled_models |->
            IF RGt(total_weight, Zero) THEN RDiv(ConfigWeight[m], total_weight)
            ELSE ConfigWeight[m]]

Pending == [state |-> "pending"]
Failed == [state |-> "failed"]
Ok(prediction_result) == [state |-> "ok", value |-> prediction_result]

\* the loop over tasks with failed models recorded under a zero score
Collected_sentinel(order, tasks) ==
    [i \in 1..Len(order) |->
        IF tasks[order[i]].state = "ok" THEN tasks[order[i]].value
        ELSE [model_name |-> order[i], prediction |-> Zero, confidence |-> Zero]]

\* model_predictions of _get_model_predictions: the results of the tasks
\* that did not raise, in task order
Collected(order, tasks) ==
    LET ok == SelectSeq(order, LAMBDA m : tasks[m].state = "ok")
    IN  [i \in 1..Len(ok) |-> tasks[ok[i]].value]

\* `if not model_predictions` never taken
NoPredictions_never(model_predictions) == FALSE

\* predict: `if not model_predictions: raise ValueError`
NoPredictions(model_predictions) == model_predictions = <<>>

\* the result dict predict builds from model_predictions
Result(model_predictions, features, start_time) ==
    LET ensemble_result == _combine_predictions(model_predictions)
        idx == 1..Len(model_predictions)
        names == {model_predictions[i].model_name : i \in idx}
        of(m) == model_predictions[CHOOSE i \in idx : model_predictions[i].model_name = m]
    IN  [fraud_probability |-> ensemble_result.fraud_probability,
         fraud_score |-> ensemble_result.fraud_probability,
         confidence |-> ensemble_result.confidence,
         risk_level |-> _calculate_risk_level(ensemble_result.fraud_probability),
         decision |-> _make_decision(ensemble_result.fraud_probability,
                                     ensemble_result.confidence),
         model_predictions |-> [m \in names |-> of(m).prediction],
         model_confidences |-> [m \in names |-> of(m).confidence],
         explanation |->
            IF enable_explanation THEN _generate_explanation(model_predictions, features)
            ELSE <<>>,
         ensemble_strategy |-> strategy,
         processing_time_ms |-> (now - start_time) * 1000]

\* a call that returned: its features, whether the cache answered it, whether
\* its lookup deleted an expired entry, how its tasks ended, and the result
Returned(features, hit, purged, tasks, result) ==
    [kind |-> "result", features |-> features, hit |-> hit, purged |-> purged,
     tasks |-> tasks, result |-> result, error |-> None]

\* a call that raised
Raised(features, purged, tasks, error) ==
    [kind |-> "error", features |-> features, hit |-> FALSE, purged |-> purged,
     tasks |-> tasks, result |-> Absent, error |-> error]

\* _get_cached_prediction(cache_key) deletes an expired entry
Purges(cache_key) == cache_key \in DOMAIN prediction_cache /\ ~CacheHit(cache_key)

\* predict, lines 85-93: the cache holds an unexpired entry and it is returned
PredictHit(r, features) ==
    LET cache_key == _generate_cache_key(features) IN
    /\ req[r].pc = "idle"
    /\ CacheHit(cache_key)
    /\ ret' = Returned(features, TRUE, FALSE, <<>>, _get_cached_prediction(cache_key))
    /\ UNCHANGED <<now, prediction_cache, cache_order, model_weights, strategy,
                   confidence_threshold, models, req,
                   call, mant_dig,
                   coroutines, model_lock, metrics_collector>>

\* predict through _get_model_predictions, lines 163-164: a miss, and no
\* enabled model is loaded
PredictNoModels(r, features) ==
    LET cache_key == _generate_cache_key(features) IN
    /\ req[r].pc = "idle"
    /\ ~CacheHit(cache_key)
    /\ EnabledLoaded = <<>>
    /\ prediction_cache' = AfterGet(cache_key).cache
    /\ cache_order' = AfterGet(cache_key).order
    /\ ret' = Raised(features, Purges(cache_key), <<>>, "No enabled models are loaded")
    /\ UNCHANGED <<now, model_weights, strategy, confidence_threshold, models, req,
                   call, mant_dig,
                   coroutines, model_lock, metrics_collector>>

\* predict up to its first `await task`: a miss, and one task is created for
\* each enabled, loaded model
PredictFanOut(r, features) ==
    LET cache_key == _generate_cache_key(features) IN
    /\ req[r].pc = "idle"
    /\ ~CacheHit(cache_key)
    /\ EnabledLoaded # <<>>
    /\ prediction_cache' = AfterGet(cache_key).cache
    /\ cache_order' = AfterGet(cache_key).order
    /\ req' = [req EXCEPT ![r] =
                  [pc |-> "await", features |-> features, cache_key |-> cache_key,
                   start_time |-> now, purged |-> Purges(cache_key),
                   order |-> EnabledLoaded,
                   tasks |-> [m \in {EnabledLoaded[i] : i \in 1..Len(EnabledLoaded)}
                                 |-> Pending]]]
    /\ UNCHANGED <<now, model_weights, strategy, confidence_threshold, models, ret,
                   call, mant_dig,
                   coroutines, model_lock, metrics_collector>>

\* a task: model_manager.predict returns raw and _predict_single_model
\* returns its PredictionResult
TaskReturns(r, m, raw) ==
    /\ req[r].pc = "await"
    /\ m \in DOMAIN req[r].tasks
    /\ req[r].tasks[m].state = "pending"
    /\ req' = [req EXCEPT ![r].tasks[m] = Ok(_predict_single_model(m, raw))]
    /\ UNCHANGED <<now, prediction_cache, cache_order, model_weights, strategy,
                   confidence_threshold, models, ret, call, mant_dig,
                   coroutines, model_lock, metrics_collector>>

\* a task: model_manager.predict raises and _predict_single_model re-raises
TaskRaises(r, m) ==
    /\ req[r].pc = "await"
    /\ m \in DOMAIN req[r].tasks
    /\ req[r].tasks[m].state = "pending"
    /\ req' = [req EXCEPT ![r].tasks[m] = Failed]
    /\ UNCHANGED <<now, prediction_cache, cache_order, model_weights, strategy,
                   confidence_threshold, models, ret, call, mant_dig,
                   coroutines, model_lock, metrics_collector>>

AllTasksDone(r) == \A m \in DOMAIN req[r].tasks : req[r].tasks[m].state # "pending"

\* predict, lines 98-99 and 146-148: every task has finished and none returned
PredictRaises(r) ==
    /\ req[r].pc = "await"
    /\ AllTasksDone(r)
    /\ NoPredictions(Collected(req[r].order, req[r].tasks))
    /\ ret' = Raised(req[r].features, req[r].purged, req[r].tasks,
                     "No model predictions available")
    /\ req' = [req EXCEPT ![r] = IdleReq]
    /\ UNCHANGED <<now, prediction_cache, cache_order, model_weights, strategy,
                   confidence_threshold, models, call, mant_dig,
                   coroutines, model_lock, metrics_collector>>

\* predict, lines 101-107 and 146-148: every task has finished and some
\* returned, and _generate_explanation raises; nothing catches the error
\* before the outer handler, which logs it and raises it again
PredictExplanationRaises(r) ==
    /\ req[r].pc = "await"
    /\ AllTasksDone(r)
    /\ ~NoPredictions(Collected(req[r].order, req[r].tasks))
    /\ enable_explanation
    /\ _generate_explanation_raises(req[r].features)
    /\ ret' = Raised(req[r].features, req[r].purged, req[r].tasks, "TypeError")
    /\ req' = [req EXCEPT ![r] = IdleReq]
    /\ UNCHANGED <<now, prediction_cache, cache_order, model_weights, strategy,
                   confidence_threshold, models, call, mant_dig,
                   coroutines, model_lock, metrics_collector>>

\* predict, lines 101-144: every task has finished; the results are combined,
\* the explanation is generated, the result is cached and returned
PredictReturns(r) ==
    LET model_predictions == Collected(req[r].order, req[r].tasks)
        result == Result(model_predictions, req[r].features, req[r].start_time)
        after == _cache_prediction(TheCache, req[r].cache_key, result)
    IN  /\ req[r].pc = "await"
        /\ AllTasksDone(r)
        /\ ~NoPredictions(model_predictions)
        /\ ~(enable_explanation /\ _generate_explanation_raises(req[r].features))
        /\ prediction_cache' = after.cache
        /\ cache_order' = after.order
        /\ ret' = Returned(req[r].features, FALSE, req[r].purged, req[r].tasks, result)
        /\ req' = [req EXCEPT ![r] = IdleReq]
        /\ UNCHANGED <<now, model_weights, strategy, confidence_threshold, models,
                       call, mant_dig,
                       coroutines, model_lock, metrics_collector>>

\* time passes
Tick ==
    /\ now < MaxTicks * SecondsPerTick
    /\ now' = now + SecondsPerTick
    /\ UNCHANGED <<prediction_cache, cache_order, model_weights, strategy,
                   confidence_threshold, models, req, ret, call, mant_dig,
                   coroutines, model_lock, metrics_collector>>

\* the weight dicts handed to update_model_weights: one names a single
\* model, one carries a negative weight, one sums to zero
NewWeightChoices ==
    {("xgboost_primary" :> One),
     ("xgboost_primary" :> Rat(2, 1)) @@ ("lstm_sequential" :> Rat(-1, 1)),
     ("xgboost_primary" :> Zero)}

\* the table update_model_weights(new_weights) leaves of the table weights
UpdatedWeights(weights, new_weights) ==
    LET names == DOMAIN new_weights
        given == SelectIn(ModelNames, names)
        total_weight == RSumSeq([i \in 1..Len(given) |-> new_weights[given[i]]])
        normalized_weights == [m \in names |-> RDiv(new_weights[m], total_weight)]
    IN  IF RGt(total_weight, Zero)
        THEN [m \in DOMAIN weights \cup names |->
                 IF m \in names THEN normalized_weights[m] ELSE weights[m]]
        ELSE weights

\* EnsemblePredictor.update_model_weights
update_model_weights(new_weights) ==
    /\ model_weights' = UpdatedWeights(model_weights, new_weights)
    /\ UNCHANGED <<now, prediction_cache, cache_order, strategy,
                   confidence_threshold, models, req, ret, call, mant_dig,
                   coroutines, model_lock, metrics_collector>>

\* the models load_all_models managed to load at startup: a prefix of the
\* configured models (a load that raises is logged and skipped)
LoadedAtStartup(most) == {{ModelNames[i] : i \in 1..n} : n \in 0..most}

\* after lifespan(): load_all_models, then EnsemblePredictor.__init__
Startup(most) ==
    /\ mant_dig = 0
    /\ now = 0
    /\ prediction_cache = <<>>
    /\ cache_order = <<>>
    /\ model_weights = _get_model_weights
    /\ strategy \in Strategies
    /\ confidence_threshold = DefaultConfidenceThreshold
    /\ models \in LoadedAtStartup(most)
    /\ req = [r \in Slots |-> IdleReq]
    /\ ret = NoReturn
    /\ call = NoCall
    /\ NoBackground

PredictNext(F) ==
    \/ \E r \in Slots, features \in F : PredictHit(r, features)
    \/ \E r \in Slots, features \in F : PredictNoModels(r, features)
    \/ \E r \in Slots, features \in F : PredictFanOut(r, features)
    \/ \E r \in Slots, m \in ModelSet, raw \in RawPredictions : TaskReturns(r, m, raw)
    \/ \E r \in Slots, m \in ModelSet : TaskRaises(r, m)
    \/ \E r \in Slots : PredictRaises(r)
    \/ \E r \in Slots : PredictReturns(r)

(* The service with its cache: requests for several transactions *)

Init == Startup(MaxLoaded)

Next == PredictNext(FeatureSet) \/ Tick

Spec == Init /\ [][Next]_vars

(* The service with several models and runtime weight updates: requests   *)
(* for one transaction                                                     *)

\* transaction 1 as a processed feature dict whose hour_of_day is None
NullHourTransaction == Transaction(1, "USD") @@ ("hour_of_day" :> None)

ScorerFeatureSet == {Transaction(1, "USD"), NullHourTransaction}

InitScorer == Startup(MaxScored)

NextScorer ==
    \/ PredictNext(ScorerFeatureSet)
    \/ \E r \in Slots : PredictExplanationRaises(r)
    \/ Tick
    \/ \E new_weights \in NewWeightChoices : update_model_weights(new_weights)

SpecScorer == InitScorer /\ [][NextScorer]_vars

(* The decision policy called directly on a grid of inputs *)

Probabilities == {Rat(k, ProbGrid) : k \in 0..ProbGrid}
Confidences == {Rat(k, ConfGrid) : k \in 0..ConfGrid}

InitDecision ==
    /\ mant_dig = 0
    /\ now = 0
    /\ prediction_cache = <<>>
    /\ cache_order = <<>>
    /\ model_weights = _get_model_weights
    /\ strategy = "weighted_average"
    /\ confidence_threshold \in Confidences
    /\ models = {}
    /\ req = [r \in Slots |-> IdleReq]
    /\ ret = NoReturn
    /\ NoBackground
    /\ \E fn \in {"_make_decision", "_calculate_risk_level"},
          p \in Probabilities, c \in Confidences :
           call = [fn |-> fn, fraud_probability |-> p, confidence |-> c, out |-> None]

\* a call of _make_decision(fraud_probability, confidence)
Decide ==
    /\ call.fn = "_make_decision"
    /\ call.out = None
    /\ call' = [call EXCEPT !.out = _make_decision(call.fraud_probability, call.confidence)]
    /\ UNCHANGED <<now, prediction_cache, cache_order, model_weights, strategy,
                   confidence_threshold, models, req, ret, mant_dig,
                   coroutines, model_lock, metrics_collector>>

\* a call of _calculate_risk_level(fraud_probability) for an ensemble result
\* of that fraud_probability and of confidence call.confidence
Classify ==
    /\ call.fn = "_calculate_risk_level"
    /\ call.out = None
    /\ call' = [call EXCEPT !.out = _calculate_risk_level(call.fraud_probability)]
    /\ UNCHANGED <<now, prediction_cache, cache_order, model_weights, strategy,
                   confidence_threshold, models, req, ret, mant_dig,
                   coroutines, model_lock, metrics_collector>>

NextDecision == Decide \/ Classify

SpecDecision == InitDecision /\ [][NextDecision]_vars

(* Concurrent requests: several predict coroutines in flight on the one   *)
(* event loop, for two transactions whose results differ                   *)

MaxConcurrent == 2

ConcurrentSlots == 1..MaxConcurrent

\* transaction 2 with an amount above the 10000 of _generate_explanation
LargeTransaction == [Transaction(2, "USD") EXCEPT !.amount = 20000]

ConcurrentFeatureSet == {Transaction(1, "USD"), LargeTransaction}

InitConcurrent ==
    /\ mant_dig = 0
    /\ now = 0
    /\ prediction_cache = <<>>
    /\ cache_order = <<>>
    /\ model_weights = _get_model_weights
    /\ strategy = "weighted_average"
    /\ confidence_threshold = DefaultConfidenceThreshold
    /\ models \in LoadedAtStartup(MaxLoaded)
    /\ req = [r \in ConcurrentSlots |-> IdleReq]
    /\ ret = NoReturn
    /\ call = NoCall
    /\ NoBackground

NextConcurrent ==
    \/ \E r \in ConcurrentSlots, features \in ConcurrentFeatureSet :
           PredictHit(r, features)
    \/ \E r \in ConcurrentSlots, features \in ConcurrentFeatureSet :
           PredictNoModels(r, features)
    \/ \E r \in ConcurrentSlots, features \in ConcurrentFeatureSet :
           PredictFanOut(r, features)
    \/ \E r \in ConcurrentSlots, m \in ModelSet, raw \in RawPredictions :
           TaskReturns(r, m, raw)
    \/ \E r \in ConcurrentSlots, m \in ModelSet : TaskRaises(r, m)
    \/ \E r \in ConcurrentSlots : PredictRaises(r)
    \/ \E r \in ConcurrentSlots : PredictReturns(r)
    \/ Tick

SpecConcurrent == InitConcurrent /\ [][NextConcurrent]_vars

(* The per-model confidence called directly, as _predict_single_model calls *)
(* it: for a clamped prediction and a model name                             *)

\* the model names of the bench: the configured ones and one that
\* model_confidence_multiplier does not list
ConfidenceNames == ModelSet \cup {"catboost_secondary"}

\* the clamped predictions of the bench
ConfidenceInputs ==
    {Rat(k, ProbGrid) : k \in 0..ProbGrid} \cup {Rat(k, BinaryGrid) : k \in 0..BinaryGrid}

InitConfidence ==
    /\ mant_dig \in {0, MantDig}
    /\ now = 0
    /\ prediction_cache = <<>>
    /\ cache_order = <<>>
    /\ model_weights = _get_model_weights
    /\ strategy = "weighted_average"
    /\ confidence_threshold = DefaultConfidenceThreshold
    /\ models = {}
    /\ req = [r \in Slots |-> IdleReq]
    /\ ret = NoReturn
    /\ call = NoCall
    /\ NoBackground

\* a call of _calculate_model_confidence(prediction, model_name)
Rate ==
    /\ call = NoCall
    /\ \E prediction \in ConfidenceInputs, model_name \in ConfidenceNames :
           call' = [fn |-> "_calculate_model_confidence", prediction |-> prediction,
                    model_name |-> model_name,
                    out |-> _calculate_model_confidence(prediction, model_name)]
    /\ UNCHANGED <<now, prediction_cache, cache_order, model_weights, strategy,
                   confidence_threshold, models, req, ret, mant_dig,
                   coroutines, model_lock, metrics_collector>>

NextConfidence == Rate

SpecConfidence == InitConfidence /\ [][NextConfidence]_vars

(* The explainer called directly, as predict calls it: for the result of  *)
(* one model and a features dict with a features['features'] dict          *)

\* the values of features['features']: small, negative, 1.0, large, and one
\* that is not a number (its value is not read)
FeatureValues ==
    {[numeric |-> TRUE, value |-> Rat(1, 20)], [numeric |-> TRUE, value |-> Rat(-1, 2)],
     [numeric |-> TRUE, value |-> One], [numeric |-> TRUE, value |-> Rat(50, 1)],
     [numeric |-> FALSE, value |-> Zero]}

\* a features['features'] dict of n entries, in insertion order: the first k
\* hold a, the others hold b
FeatureDict(n, k, a, b) ==
    [i \in 1..n |->
        [name |-> "f" \o ToString(i),
         numeric |-> IF i <= k THEN a.numeric ELSE b.numeric,
         value |-> IF i <= k THEN a.value ELSE b.value]]

InitExplain ==
    /\ mant_dig = 0
    /\ now = 0
    /\ prediction_cache = <<>>
    /\ cache_order = <<>>
    /\ model_weights = _get_model_weights
    /\ strategy = "weighted_average"
    /\ confidence_threshold = DefaultConfidenceThreshold
    /\ models = {"xgboost_primary"}
    /\ req = [r \in Slots |-> IdleReq]
    /\ ret = NoReturn
    /\ call = NoCall
    /\ NoBackground

\* a call of _generate_explanation(predictions, features)
Explain ==
    /\ call = NoCall
    /\ \E n \in 0..MaxFeatures, a \in FeatureValues, b \in FeatureValues :
           \E k \in 0..n :
               LET features == [Transaction(1, "USD") EXCEPT
                                   !.features = FeatureDict(n, k, a, b)]
                   predictions == <<_predict_single_model("xgboost_primary", One)>>
               IN  call' = [fn |-> "_generate_explanation", features |-> features,
                            out |-> _generate_explanation(predictions, features)]
    /\ UNCHANGED <<now, prediction_cache, cache_order, model_weights, strategy,
                   confidence_threshold, models, req, ret, mant_dig,
                   coroutines, model_lock, metrics_collector>>

NextExplain == Explain

SpecExplain == InitExplain /\ [][NextExplain]_vars

(* The /predict endpoint and the metrics collector: every served request   *)
(* schedules record_prediction, which runs after the response is sent      *)

\* the model_predictions parameter of record_prediction when the caller
\* passes none: its default, None
DefaultModelPredictions == [is_none |-> TRUE, names |-> {}]

\* the counters after lines 144-155 of record_prediction
Counted(m, fraud_probability, decision) ==
    [m EXCEPT !.prediction_history = @ + 1,
              !.prediction_count = @ + 1,
              !.fraud_detections = IF RGt(fraud_probability, Half) THEN @ + 1 ELSE @,
              !.declined_transactions = IF decision = "DECLINE" THEN @ + 1 ELSE @]

\* MetricsCollector.record_prediction on the collector m: the collector it
\* leaves and the exception it raises. model_predictions.items() at line
\* 158 raises AttributeError on None, inside the with block, before any
\* Prometheus metric is touched
record_prediction(m, fraud_probability, decision, model_predictions) ==
    IF model_predictions.is_none
    THEN [collector |-> Counted(m, fraud_probability, decision),
          error |-> "AttributeError"]
    ELSE [collector |-> [Counted(m, fraud_probability, decision)
                             EXCEPT !.predictions_total = @ + 1],
          error |-> None]

\* the results predict hands to the endpoint in the bench
ServedResults ==
    {[fraud_probability |-> p, decision |-> _make_decision(p, c)] :
        p \in {Rat(1, 5), Rat(7, 10), Rat(19, 20)}, c \in {Half, Rat(9, 10)}}

InitMetrics ==
    /\ mant_dig = 0
    /\ now = 0
    /\ prediction_cache = <<>>
    /\ cache_order = <<>>
    /\ model_weights = _get_model_weights
    /\ strategy = "weighted_average"
    /\ confidence_threshold = DefaultConfidenceThreshold
    /\ models = {"xgboost_primary"}
    /\ req = [r \in Slots |-> IdleReq]
    /\ ret = NoReturn
    /\ call = NoCall
    /\ NoBackground

\* predict_fraud, lines 159-205, for a request predict has answered: the
\* response is built, record_prediction is scheduled with four positional
\* arguments, and the response is returned
predict_fraud ==
    /\ Len(coroutines) < MaxRecorded
    /\ \E prediction \in ServedResults :
           coroutines' =
               Append(coroutines,
                      [fn |-> "record_prediction", state |-> "scheduled",
                       fraud_probability |-> prediction.fraud_probability,
                       decision |-> prediction.decision,
                       model_predictions |-> DefaultModelPredictions,
                       error |-> None])
    /\ UNCHANGED <<now, prediction_cache, cache_order, model_weights, strategy,
                   confidence_threshold, models, req, ret, call, mant_dig,
                   model_lock, metrics_collector>>

\* a scheduled record_prediction runs; it has no await, so it runs to its
\* end, or to the exception that ends it, in one step
RunRecordPrediction(i) ==
    /\ coroutines[i].state = "scheduled"
    /\ LET task == coroutines[i]
           after == record_prediction(metrics_collector, task.fraud_probability,
                                      task.decision, task.model_predictions)
       IN  /\ metrics_collector' = after.collector
           /\ coroutines' =
                  [coroutines EXCEPT ![i].state = "done",
                                           ![i].error = after.error]
    /\ UNCHANGED <<now, prediction_cache, cache_order, model_weights, strategy,
                   confidence_threshold, models, req, ret, call, mant_dig,
                   model_lock>>

NextMetrics ==
    \/ predict_fraud
    \/ \E i \in DOMAIN coroutines : RunRecordPrediction(i)

SpecMetrics == InitMetrics /\ [][NextMetrics]_vars

(* The model manager: lifespan's load_all_models, then reloads of one     *)
(* model or of all models, each a coroutine on the one event loop          *)

ManagerTasks == 1..(MaxReloads + 1)

\* a coroutine of the model manager that has not run yet
ManagerTask(fn, model_name) ==
    [fn |-> fn, pc |-> "scheduled", model_name |-> model_name, pending |-> {},
     failed |-> {}, removed |-> FALSE, error |-> None]

\* the names reload_model is called with: two configured, one not
ReloadNames == {"xgboost_primary", "bert_text", "catboost_secondary"}

\* lifespan at line 52: ModelManager.__init__ has run, load_all_models is
\* about to
InitManager ==
    /\ mant_dig = 0
    /\ now = 0
    /\ prediction_cache = <<>>
    /\ cache_order = <<>>
    /\ model_weights = _get_model_weights
    /\ strategy = "weighted_average"
    /\ confidence_threshold = DefaultConfidenceThreshold
    /\ models = {}
    /\ req = [r \in Slots |-> IdleReq]
    /\ ret = NoReturn
    /\ call = NoCall
    /\ coroutines = <<ManagerTask("load_all_models", None)>>
    /\ model_lock = Unlocked
    /\ metrics_collector = MetricsCollector

\* the service takes requests once lifespan's load_all_models has returned
Serving == coroutines[1].pc = "done"

\* POST /reload-models: reload_all_models is handed to the background coroutines
reload_models ==
    /\ Serving
    /\ Len(coroutines) <= MaxReloads
    /\ coroutines' = Append(coroutines, ManagerTask("reload_all_models", None))
    /\ UNCHANGED <<now, prediction_cache, cache_order, model_weights, strategy,
                   confidence_threshold, models, req, ret, call, mant_dig,
                   model_lock, metrics_collector>>

\* a call of reload_model(model_name), up to its async with: ValueError for
\* a name that is not configured
reload_model(model_name) ==
    /\ Serving
    /\ Len(coroutines) <= MaxReloads
    /\ coroutines' = Append(coroutines,
                       IF model_name \in ModelSet
                       THEN ManagerTask("reload_model", model_name)
                       ELSE [ManagerTask("reload_model", model_name)
                                EXCEPT !.pc = "done", !.error = "ValueError"])
    /\ UNCHANGED <<now, prediction_cache, cache_order, model_weights, strategy,
                   confidence_threshold, models, req, ret, call, mant_dig,
                   model_lock, metrics_collector>>

\* reload_all_models, lines 373-380: it takes model_lock, clears the
\* models and calls load_all_models, which stops at its own async with
ReloadAllAcquires(i) ==
    /\ coroutines[i].fn = "reload_all_models"
    /\ coroutines[i].pc = "scheduled"
    /\ model_lock = Unlocked
    /\ model_lock' = i
    /\ models' = {}
    /\ coroutines' = [coroutines EXCEPT ![i].pc = "load_all_models"]
    /\ UNCHANGED <<now, prediction_cache, cache_order, model_weights, strategy,
                   confidence_threshold, req, ret, call, mant_dig,
                   metrics_collector>>

\* load_all_models, lines 84-94: asyncio.Lock is not reentrant, the
\* coroutine passes the async with only when no task holds the lock, its
\* own task included; then it creates one task per enabled model
LoadAllAcquires(i) ==
    /\ \/ coroutines[i].fn = "load_all_models" /\ coroutines[i].pc = "scheduled"
       \/ coroutines[i].pc = "load_all_models"
    /\ model_lock = Unlocked
    /\ model_lock' = i
    /\ coroutines' = [coroutines EXCEPT ![i].pc = "gather", ![i].pending = get_enabled_models]
    /\ UNCHANGED <<now, prediction_cache, cache_order, model_weights, strategy,
                   confidence_threshold, models, req, ret, call, mant_dig,
                   metrics_collector>>

\* _load_single_model(model_name, model_config), lines 108-139: the model
\* is stored (loaded), or the exception is logged and raised again
LoadSingleModel(i, model_name, loaded) ==
    /\ coroutines[i].pc \in {"gather", "_load_single_model"}
    /\ model_name \in coroutines[i].pending
    /\ models' = IF loaded THEN models \cup {model_name} ELSE models
    /\ coroutines' = [coroutines EXCEPT
                    ![i].pending = @ \ {model_name},
                    ![i].failed = IF loaded THEN @ ELSE @ \cup {model_name}]
    /\ UNCHANGED <<now, prediction_cache, cache_order, model_weights, strategy,
                   confidence_threshold, req, ret, call, mant_dig,
                   model_lock, metrics_collector>>

\* load_all_models, lines 96-106: gather has every result, the failures are
\* logged, the async with releases the lock. In reload_all_models control
\* is then at the end of the outer async with, whose release() raises
\* RuntimeError on a lock that is not locked
LoadAllReturns(i) ==
    /\ coroutines[i].pc = "gather"
    /\ coroutines[i].pending = {}
    /\ model_lock' = Unlocked
    /\ coroutines' = [coroutines EXCEPT
                    ![i].pc = "done",
                    ![i].error = IF coroutines[i].fn = "reload_all_models"
                                 THEN "RuntimeError" ELSE None]
    /\ UNCHANGED <<now, prediction_cache, cache_order, model_weights, strategy,
                   confidence_threshold, models, req, ret, call, mant_dig,
                   metrics_collector>>

\* reload_model, lines 353-364: it takes model_lock, removes the old model
\* if there is one and awaits _load_single_model
ReloadModelAcquires(i) ==
    /\ coroutines[i].fn = "reload_model"
    /\ coroutines[i].pc = "scheduled"
    /\ model_lock = Unlocked
    /\ model_lock' = i
    /\ models' = models \ {coroutines[i].model_name}
    /\ coroutines' = [coroutines EXCEPT
                    ![i].pc = "_load_single_model",
                    ![i].removed = is_model_loaded(coroutines[i].model_name),
                    ![i].pending = {coroutines[i].model_name}]
    /\ UNCHANGED <<now, prediction_cache, cache_order, model_weights, strategy,
                   confidence_threshold, req, ret, call, mant_dig,
                   metrics_collector>>

\* reload_model, lines 364-369: _load_single_model has returned, or its
\* exception is logged and raised again; the async with releases the lock
ReloadModelReturns(i) ==
    /\ coroutines[i].fn = "reload_model"
    /\ coroutines[i].pc = "_load_single_model"
    /\ coroutines[i].pending = {}
    /\ model_lock' = Unlocked
    /\ coroutines' = [coroutines EXCEPT
                    ![i].pc = "done",
                    ![i].error = IF coroutines[i].failed = {} THEN None ELSE "Exception"]
    /\ UNCHANGED <<now, prediction_cache, cache_order, model_weights, strategy,
                   confidence_threshold, models, req, ret, call, mant_dig,
                   metrics_collector>>

\* one step of the coroutine i
ManagerStep(i) ==
    /\ i \in DOMAIN coroutines
    /\ \/ ReloadAllAcquires(i)
       \/ LoadAllAcquires(i)
       \/ \E model_name \in ModelSet, loaded \in BOOLEAN :
              LoadSingleModel(i, model_name, loaded)
       \/ LoadAllReturns(i)
       \/ ReloadModelAcquires(i)
       \/ ReloadModelReturns(i)

NextManager ==
    \/ reload_models
    \/ \E model_name \in ReloadNames : reload_model(model_name)
    \/ \E i \in DOMAIN coroutines : ReloadAllAcquires(i)
    \/ \E i \in DOMAIN coroutines : LoadAllAcquires(i)
    \/ \E i \in DOMAIN coroutines, model_name \in ModelSet, loaded \in BOOLEAN :
           LoadSingleModel(i, model_name, loaded)
    \/ \E i \in DOMAIN coroutines : LoadAllReturns(i)
    \/ \E i \in DOMAIN coroutines : ReloadModelAcquires(i)
    \/ \E i \in DOMAIN coroutines : ReloadModelReturns(i)

SpecManager == InitManager /\ [][NextManager]_vars

\* the event loop runs every coroutine that can take a step
SpecManagerLive ==
    SpecManager /\ \A i \in ManagerTasks : WF_vars(ManagerStep(i))

(* The cache key computed directly, for requests whose identifiers are    *)
(* free strings (TransactionFeatures declares them as str)                 *)

\* requests whose identifiers may hold the separator of the key
KeyInputs ==
    [transaction_id : {"t1", "t2"}, amount : {5, 100},
     user_id : {"u", "u_1", "u1"}, merchant_id : {"m", "1_m", "m1"},
     payment_method : {"card", "crypto"}, currency : {"USD", "EUR"},
     features : {<<>>}]

InitKey ==
    /\ mant_dig = 0
    /\ now = 0
    /\ prediction_cache = <<>>
    /\ cache_order = <<>>
    /\ model_weights = _get_model_weights
    /\ strategy = "weighted_average"
    /\ confidence_threshold = DefaultConfidenceThreshold
    /\ models = {"xgboost_primary"}
    /\ req = [r \in Slots |-> IdleReq]
    /\ ret = NoReturn
    /\ call = NoCall
    /\ NoBackground

\* a call of _generate_cache_key(features)
GenerateCacheKey ==
    /\ call = NoCall
    /\ \E features \in KeyInputs :
           call' = [fn |-> "_generate_cache_key", features |-> features,
                    out |-> _generate_cache_key(features)]
    /\ UNCHANGED <<now, prediction_cache, cache_order, model_weights, strategy,
                   confidence_threshold, models, req, ret, mant_dig,
                   coroutines, model_lock, metrics_collector>>

NextKey == GenerateCacheKey

SpecKey == InitKey /\ [][NextKey]_vars

(* The combiner called directly: predict from line 101 on, for a list of  *)
(* model results in any order, under a weight table the service can hold   *)

\* the weight dicts update_model_weights was called with before the bench
BenchWeightChoices ==
    {("xgboost_primary" :> Rat(5, 10)) @@ ("lstm_sequential" :> Rat(3, 10))
        @@ ("bert_text" :> Rat(2, 10)),
     ("xgboost_primary" :> One) @@ ("lstm_sequential" :> Zero),
     ("xgboost_primary" :> Rat(2, 1)) @@ ("lstm_sequential" :> Rat(-1, 1))}

\* the weight tables of the bench: the one __init__ builds, and that table
\* after one update_model_weights call
BenchWeightTables ==
    {_get_model_weights}
        \cup {UpdatedWeights(_get_model_weights, w) : w \in BenchWeightChoices}

\* the raw scores the models of the bench return
BenchScores == {Rat(1, 10), Rat(2, 10), Rat(5, 10), Rat(9, 10), Rat(97, 100)}

\* the confidence thresholds of the bench (CONFIDENCE_THRESHOLD)
BenchThresholds == {Rat(5, 10), DefaultConfidenceThreshold}

\* the models whose results are combined
Combined == {ModelNames[i] : i \in 1..MaxCombined}

\* the orderings of the set S
Orderings(S) ==
    {o \in [1..Cardinality(S) -> S] : \A i, j \in 1..Cardinality(S) : o[i] = o[j] => i = j}

InitCombiner ==
    /\ mant_dig \in {0, MantDig}
    /\ now = 0
    /\ prediction_cache = <<>>
    /\ cache_order = <<>>
    /\ model_weights \in BenchWeightTables
    /\ strategy \in Strategies
    /\ confidence_threshold \in BenchThresholds
    /\ models = Combined
    /\ req = [r \in Slots |-> IdleReq]
    /\ ret = NoReturn
    /\ call = NoCall
    /\ NoBackground

\* the results of the models in order, each scoring raw[its name], as
\* _predict_single_model returns them
ModelResults(order, raw) ==
    [i \in 1..Len(order) |-> _predict_single_model(order[i], raw[order[i]])]

\* the bench is handed a list of model results
Collect ==
    /\ call = NoCall
    /\ \E names \in SUBSET Combined \ {{}} :
           \E order \in Orderings(names), raw \in [names -> BenchScores] :
               call' = [fn |-> "combine", predictions |-> ModelResults(order, raw),
                        out |-> Absent]
    /\ UNCHANGED <<now, prediction_cache, cache_order, model_weights, strategy,
                   confidence_threshold, models, req, ret, mant_dig,
                   coroutines, model_lock, metrics_collector>>

\* predict, lines 101-130, for model_predictions = call.predictions
Combine ==
    /\ call.fn = "combine"
    /\ call.out = Absent
    /\ call' = [call EXCEPT !.out = Result(call.predictions, Transaction(1, "USD"), now)]
    /\ UNCHANGED <<now, prediction_cache, cache_order, model_weights, strategy,
                   confidence_threshold, models, req, ret, mant_dig,
                   coroutines, model_lock, metrics_collector>>

NextCombiner == Collect \/ Combine

SpecCombiner == InitCombiner /\ [][NextCombiner]_vars

-----------------------------------------------------------------------------
(* Properties *)

\* C1: for every fraud_probability in [0,1], a confidence below
\* confidence_threshold makes _make_decision return REVIEW.
C1_LowConfidenceIsReview ==
    (call.fn = "_make_decision" /\ call.out # None
        /\ RLt(call.confidence, confidence_threshold))
    => call.out = "REVIEW"

\* confidence 0.3 under threshold 0.7 with fraud_probability 0.99 gave REVIEW
C1_Witness ==
    /\ call.fn = "_make_decision"
    /\ call.fraud_probability = Rat(99, 100)
    /\ call.confidence = Rat(3, 10)
    /\ confidence_threshold = Rat(7, 10)
    /\ call.out = "REVIEW"

\* the models of a finished call whose task returned / raised
Succeeded(tasks) == {m \in DOMAIN tasks : tasks[m].state = "ok"}
Failing(tasks) == {m \in DOMAIN tasks : tasks[m].state = "failed"}

\* C2: a predict call that missed the cache and all of whose scoring calls
\* failed (or that found no enabled model loaded) raised: it returned no
\* result, so no decision and no score.
C2_AllFailedRaises ==
    (ret.kind # "none" /\ ~ret.hit /\ Succeeded(ret.tasks) = {})
    => (ret.kind = "error" /\ ret.result = Absent)

\* two scoring calls were made, both failed, and predict raised
C2_Witness ==
    /\ ret.kind = "error"
    /\ ret.error = "No model predictions available"
    /\ Cardinality(Failing(ret.tasks)) >= 2

\* C3: a predict call that missed the cache and had at least one scoring call
\* succeed returned a result, whatever other calls failed, and the keys of its
\* model_predictions and model_confidences are exactly the models that
\* succeeded, each with the score and confidence its call returned.
C3_PartialFailureIsolated ==
    (ret.kind # "none" /\ ~ret.hit /\ Succeeded(ret.tasks) # {})
    => /\ ret.kind = "result"
       /\ DOMAIN ret.result.model_predictions = Succeeded(ret.tasks)
       /\ DOMAIN ret.result.model_confidences = Succeeded(ret.tasks)
       /\ \A m \in Succeeded(ret.tasks) :
              /\ ret.result.model_predictions[m] = ret.tasks[m].value.prediction
              /\ ret.result.model_confidences[m] = ret.tasks[m].value.confidence

\* one call failed, another succeeded, and predict returned a result
C3_Witness ==
    /\ ret.kind = "result"
    /\ ~ret.hit
    /\ Failing(ret.tasks) # {}
    /\ Succeeded(ret.tasks) # {}

\* C4: a scoring call that has run longer than prediction_timeout_seconds is
\* treated as failed: predict is no longer waiting for it.
C4_TimedOutCallGivenUp ==
    \A r \in Slots :
        req[r].pc = "await" =>
            \A m \in DOMAIN req[r].tasks :
                req[r].tasks[m].state = "pending" =>
                    now - req[r].start_time <= prediction_timeout_seconds

\* C5: the prediction cache never holds more entries than its maximum.
C5_CacheWithinLimit == Cardinality(DOMAIN prediction_cache) <= CacheLimit

\* the entries with the least timestamp
Oldest == {k \in DOMAIN prediction_cache :
              \A j \in DOMAIN prediction_cache :
                  prediction_cache[k].timestamp <= prediction_cache[j].timestamp}

\* C6: a step that puts a new key into a cache holding CacheLimit entries
\* evicts exactly one entry, an oldest one, and leaves every other entry as
\* it was.
C6_InsertAtLimitEvictsOldest ==
    [][(Cardinality(DOMAIN prediction_cache) = CacheLimit
          /\ DOMAIN prediction_cache' \ DOMAIN prediction_cache # {})
       => \E k \in Oldest :
              /\ DOMAIN prediction_cache \ DOMAIN prediction_cache' = {k}
              /\ \A j \in DOMAIN prediction_cache \ {k} :
                     prediction_cache'[j] = prediction_cache[j]]_vars

\* C7: the weight table is normalized: no weight is negative and the weights
\* sum to 1.
C7_WeightsNormalized ==
    LET names == SelectIn(ModelNames, DOMAIN model_weights) IN
    /\ \A m \in DOMAIN model_weights : RGe(model_weights[m], Zero)
    /\ RSumSeq([i \in 1..Len(names) |-> model_weights[names[i]]]) = One

\* the fields the cache key is made of
KeyFields == {"transaction_id", "amount", "user_id", "merchant_id", "payment_method"}
SameKeyFields(f, g) == \A k \in KeyFields : f[k] = g[k]

\* a step in which slot r begins predict(features)
Begins(r, features) ==
    \/ PredictHit(r, features)
    \/ PredictNoModels(r, features)
    \/ PredictFanOut(r, features)

\* C8: a predict call made while the cache holds an unexpired entry put by a
\* call whose features agree with it on the five key fields returns that
\* entry's result, which is the result the earlier call returned, and starts
\* no scoring call.
C8_SecondCallServedFromCache ==
    [][/\ \A r \in Slots, f \in FeatureSet, g \in FeatureSet :
              (/\ Begins(r, f)
               /\ SameKeyFields(f, g)
               /\ _generate_cache_key(g) \in DOMAIN prediction_cache
               /\ now - prediction_cache[_generate_cache_key(g)].timestamp
                      < cache_ttl_seconds)
              => /\ ret'.kind = "result"
                 /\ ret'.result = prediction_cache[_generate_cache_key(g)].result
                 /\ ret'.tasks = <<>>
                 /\ UNCHANGED <<req, prediction_cache, cache_order>>
       /\ \A r \in Slots :
              PredictReturns(r)
              => prediction_cache'[req[r].cache_key] =
                     [result |-> ret'.result, timestamp |-> now]]_vars

\* a later call that differs from the writer outside the key fields, or is
\* the same, was answered from the cache
C8_Witness ==
    /\ ret.kind = "result"
    /\ ret.hit
    /\ ret.features.currency = "EUR"
    /\ ret.tasks = <<>>
    /\ now > prediction_cache[_generate_cache_key(ret.features)].timestamp

\* C9 as amended: a lookup that finds an entry whose age has reached
\* cache_ttl_seconds does not return it and deletes it, the call goes on as a
\* miss, and when that call returns a result the result is cached under the
\* key with the time of the return.
C9_ExpiredEntryPurged ==
    [][/\ \A r \in Slots, f \in FeatureSet :
              (/\ Begins(r, f)
               /\ _generate_cache_key(f) \in DOMAIN prediction_cache
               /\ now - prediction_cache[_generate_cache_key(f)].timestamp
                      >= cache_ttl_seconds)
              => /\ _generate_cache_key(f) \notin DOMAIN prediction_cache'
                 /\ \/ req'[r].pc = "await" /\ req'[r].purged /\ ret' = ret
                    \/ ret'.kind = "error" /\ req' = req
       /\ \A r \in Slots :
              (req[r].pc = "await" /\ req[r].purged /\ req'[r].pc = "idle"
                  /\ ret'.kind = "result")
              => /\ ~ret'.hit
                 /\ req[r].cache_key \in DOMAIN prediction_cache'
                 /\ prediction_cache'[req[r].cache_key] =
                        [result |-> ret'.result, timestamp |-> now]]_vars

\* a call whose lookup deleted an expired entry has returned a recomputed
\* result, which is in the cache with the time of the return
C9_Witness ==
    /\ ret.kind = "result"
    /\ ret.purged
    /\ ~ret.hit
    /\ _generate_cache_key(ret.features) \in DOMAIN prediction_cache
    /\ prediction_cache[_generate_cache_key(ret.features)] =
           [result |-> ret.result, timestamp |-> now]
    /\ now >= cache_ttl_seconds

\* C9 as stated: every call whose lookup deleted an expired entry re-inserts
\* the key with a fresh timestamp when it finishes.
C9_AlwaysReinserted ==
    [][\A r \in Slots :
          (req[r].pc = "await" /\ req[r].purged /\ req'[r].pc = "idle")
          => /\ req[r].cache_key \in DOMAIN prediction_cache'
             /\ prediction_cache'[req[r].cache_key].timestamp = now]_vars

\* C10: every result predict returns has fraud_probability and confidence
\* within [0,1].
C10_ResultInUnitInterval ==
    ret.kind = "result"
    => (InUnit(ret.result.fraud_probability) /\ InUnit(ret.result.confidence))

\* C11: with confidence at or above the threshold, _make_decision returns
\* DECLINE exactly for fraud_probability >= 0.95, REVIEW exactly for
\* [0.80, 0.95), APPROVE_WITH_MONITORING exactly for [0.60, 0.80) and APPROVE
\* exactly below 0.60: the four bands are disjoint and cover every input, so
\* the inputs alone fix the decision.
C11_DecisionTable ==
    (call.fn = "_make_decision" /\ call.out # None
        /\ RGe(call.confidence, confidence_threshold))
    => LET p == call.fraud_probability IN
       /\ call.out = "DECLINE" <=> RGe(p, Rat(95, 100))
       /\ call.out = "REVIEW" <=> (RGe(p, Rat(80, 100)) /\ RLt(p, Rat(95, 100)))
       /\ call.out = "APPROVE_WITH_MONITORING"
              <=> (RGe(p, Rat(60, 100)) /\ RLt(p, Rat(80, 100)))
       /\ call.out = "APPROVE" <=> RLt(p, Rat(60, 100))

\* fraud_probability exactly 0.80 with confidence at the threshold gave REVIEW
C11_Witness ==
    /\ call.fn = "_make_decision"
    /\ call.fraud_probability = Rat(80, 100)
    /\ call.confidence = confidence_threshold
    /\ call.out = "REVIEW"

\* C12: the risk level is CRITICAL from 0.95, HIGH from 0.80, MEDIUM from
\* 0.60, LOW from 0.30 and VERY_LOW below, whatever the confidence of the
\* result and whatever the confidence threshold.
C12_RiskLevelTable ==
    (call.fn = "_calculate_risk_level" /\ call.out # None)
    => LET p == call.fraud_probability IN
       call.out = IF RGe(p, Rat(95, 100)) THEN "CRITICAL"
                  ELSE IF RGe(p, Rat(80, 100)) THEN "HIGH"
                  ELSE IF RGe(p, Rat(60, 100)) THEN "MEDIUM"
                  ELSE IF RGe(p, Rat(30, 100)) THEN "LOW"
                  ELSE "VERY_LOW"

\* fraud_probability 0.99 is CRITICAL although the confidence 0.3 is below
\* the threshold 0.7, where the decision is REVIEW
C12_Witness ==
    /\ call.fn = "_calculate_risk_level"
    /\ call.fraud_probability = Rat(99, 100)
    /\ call.confidence = Rat(3, 10)
    /\ confidence_threshold = Rat(7, 10)
    /\ call.out = "CRITICAL"

\* the bench has combined call.predictions into call.out
Combined_done == call.fn = "combine" /\ call.out # Absent

\* the names and the scores of the model results handed to the bench
ResultNames == {call.predictions[i].model_name : i \in 1..Len(call.predictions)}
ScoreOf(m) ==
    call.predictions[CHOOSE i \in 1..Len(call.predictions) :
                         call.predictions[i].model_name = m].prediction
ScoresAre(scores) ==
    /\ ResultNames = DOMAIN scores
    /\ \A m \in ResultNames : ScoreOf(m) = scores[m]

\* the scenario of C13: the weights the service was given and the scores
ScenarioWeights ==
    ("xgboost_primary" :> Rat(5, 10)) @@ ("lstm_sequential" :> Rat(3, 10))
        @@ ("bert_text" :> Rat(2, 10))
ScenarioScores ==
    ("xgboost_primary" :> Rat(9, 10)) @@ ("lstm_sequential" :> Rat(2, 10))
        @@ ("bert_text" :> Rat(1, 10))
Scenario ==
    /\ Combined_done
    /\ strategy = "weighted_average"
    /\ model_weights = UpdatedWeights(_get_model_weights, ScenarioWeights)
    /\ ScoresAre(ScenarioScores)

\* C13 as stated: the scenario gives 53/100, risk level MEDIUM and, when the
\* confidence reaches the threshold, APPROVE_WITH_MONITORING
C13_ScenarioIsMedium ==
    Scenario =>
        /\ call.out.risk_level = "MEDIUM"
        /\ RGe(call.out.confidence, confidence_threshold)
               => call.out.decision = "APPROVE_WITH_MONITORING"
        /\ mant_dig = 0 => call.out.fraud_probability = <<53, 100>>

\* C13: with weights 0.5, 0.3, 0.2 for three models that score 0.9, 0.2, 0.1,
\* in whatever order their results arrive, the weighted average is below the
\* 0.60 band: the risk level is LOW and, when the confidence reaches the
\* threshold, the decision is APPROVE (REVIEW when it does not); computed
\* without rounding the fraud_probability is 53/100 (binary64 evaluates the
\* same expression to 0.53 as well).
C13_ScenarioIsLow ==
    Scenario =>
        /\ call.out.risk_level = "LOW"
        /\ call.out.decision =
               IF RGe(call.out.confidence, confidence_threshold) THEN "APPROVE"
               ELSE "REVIEW"
        /\ mant_dig = 0 => call.out.fraud_probability = <<53, 100>>

C13_Witness ==
    /\ Scenario
    /\ mant_dig = 0
    /\ call.out.fraud_probability = <<53, 100>>
    /\ RGe(call.out.confidence, confidence_threshold)
    /\ call.out.decision = "APPROVE"
    /\ call.predictions[1].model_name = "bert_text"

\* the scores handed to the bench, and the weights of the models that gave them
Scores == {ScoreOf(m) : m \in ResultNames}
RespondingWeights == {WeightOf(m) : m \in ResultNames}

\* C17: when the weights of the models that responded are non-negative and
\* not all zero, the weighted-average fraud_probability is at least the
\* smallest and at most the largest of their predictions.
C17_WeightedAverageInRange ==
    (/\ Combined_done
     /\ strategy = "weighted_average"
     /\ \A w \in RespondingWeights : RGe(w, Zero)
     /\ \E w \in RespondingWeights : RGt(w, Zero))
        => /\ \E p \in Scores : RLe(p, call.out.fraud_probability)
           /\ \E p \in Scores : RLe(call.out.fraud_probability, p)

\* the lists that hold the same model results as s in another order
Reorderings(s) == {[i \in 1..Len(s) |-> s[o[i]]] : o \in Orderings(1..Len(s))}

\* C18: whatever the strategy, the fraud_probability and the confidence that
\* _combine_predictions returns for a list of model results are those it
\* returns for every other ordering of the same results.
C18_OrderInvariant ==
    Combined_done =>
        \A q \in Reorderings(call.predictions) :
            /\ _combine_predictions(q).fraud_probability = call.out.fraud_probability
            /\ _combine_predictions(q).confidence = call.out.confidence

\* the weights of the model results handed to the bench, in list order
ResultWeights ==
    [i \in 1..Len(call.predictions) |-> WeightOf(call.predictions[i].model_name)]

\* C19: under the weighted-average strategy, when the weights of the models
\* that responded sum to zero, fraud_probability is 0.5 and confidence is 0,
\* and with a positive confidence threshold the decision is REVIEW.
C19_ZeroWeightFallback ==
    (/\ Combined_done
     /\ strategy = "weighted_average"
     /\ RSumSeq(ResultWeights) = Zero)
        => /\ call.out.fraud_probability = Half
           /\ call.out.confidence = Zero
           /\ RGt(confidence_threshold, Zero) => call.out.decision = "REVIEW"

C19_Witness ==
    /\ Combined_done
    /\ strategy = "weighted_average"
    /\ ResultNames = {"lstm_sequential"}
    /\ WeightOf("lstm_sequential") = Zero
    /\ ScoreOf("lstm_sequential") = Rat(97, 100)
    /\ RGt(confidence_threshold, Zero)
    /\ call.out.fraud_probability = Half
    /\ call.out.decision = "REVIEW"

\* the models handed to the bench whose prediction is above fraud_threshold
VotesForFraud == {m \in ResultNames : RGt(ScoreOf(m), fraud_threshold)}

\* the confidences of the model results handed to the bench, in list order
ResultConfidences ==
    [i \in 1..Len(call.predictions) |-> call.predictions[i].confidence]

\* C20: under the voting strategy fraud_probability is the number of models
\* whose prediction is strictly above fraud_threshold divided by the number
\* of models that responded, and confidence is the mean of their confidences
\* (their float sum in list order over their number);
\* a single model that predicts 0.97 gives fraud_probability 1, risk level
\* CRITICAL and, when its confidence reaches the threshold, DECLINE.
C20_VotingIsShareOfVotes ==
    (Combined_done /\ strategy = "voting") =>
        /\ call.out.fraud_probability =
               Rat(Cardinality(VotesForFraud), Cardinality(ResultNames))
        /\ call.out.confidence =
               RDiv(RSumSeq(ResultConfidences), Rat(Cardinality(ResultNames), 1))
        /\ (Cardinality(ResultNames) = 1 /\ Scores = {Rat(97, 100)}) =>
               /\ call.out.fraud_probability = One
               /\ call.out.risk_level = "CRITICAL"
               /\ RGe(call.out.confidence, confidence_threshold)
                      => call.out.decision = "DECLINE"

C20_Witness ==
    /\ Combined_done
    /\ strategy = "voting"
    /\ ResultNames = {"xgboost_primary"}
    /\ ScoreOf("xgboost_primary") = Rat(97, 100)
    /\ RGe(call.out.confidence, confidence_threshold)
    /\ call.out.fraud_probability = One
    /\ call.out.risk_level = "CRITICAL"
    /\ call.out.decision = "DECLINE"

\* C14: a predict call during which _generate_explanation raised, after at
\* least one scoring call succeeded, still returned a result: the decision
\* and risk level of its fraud_probability and confidence, with an empty
\* explanation.
C14_ExplanationErrorSwallowed ==
    (/\ ret.kind # "none"
     /\ ~ret.hit
     /\ Succeeded(ret.tasks) # {}
     /\ enable_explanation
     /\ _generate_explanation_raises(ret.features))
        => /\ ret.kind = "result"
           /\ ret.result.explanation = <<>>
           /\ ret.result.risk_level = _calculate_risk_level(ret.result.fraud_probability)
           /\ ret.result.decision =
                  _make_decision(ret.result.fraud_probability, ret.result.confidence)

\* the models that are enabled and loaded
Available == {m \in get_enabled_models : is_model_loaded(m)}

\* the errors predict raises for want of a model or of a score
UnavailableErrors == {"No enabled models are loaded", "No model predictions available"}

FeaturesOfKey(k) == {f \in ConcurrentFeatureSet : _generate_cache_key(f) = k}

\* the fields of the result dict predict builds
ResultFields ==
    {"fraud_probability", "fraud_score", "confidence", "risk_level", "decision",
     "model_predictions", "model_confidences", "explanation", "ensemble_strategy",
     "processing_time_ms"}

\* every cache entry is a whole (result, timestamp) pair whose result was
\* built for a request of its key, and every key has one entry
CacheWellFormed ==
    /\ \A k \in DOMAIN prediction_cache :
           /\ DOMAIN prediction_cache[k] = {"result", "timestamp"}
           /\ prediction_cache[k].timestamp \in 0..now
           /\ DOMAIN prediction_cache[k].result = ResultFields
           /\ FeaturesOfKey(k) # {}
           /\ \A f \in FeaturesOfKey(k) :
                  prediction_cache[k].result.explanation.key_factors = key_factors(f)
    /\ Len(cache_order) = Cardinality(DOMAIN prediction_cache)
    /\ {cache_order[i] : i \in 1..Len(cache_order)} = DOMAIN prediction_cache

\* an entry that appears or changes in a step is written whole by one
\* returning request of that key, from that request's own scoring calls
WrittenByOwner ==
    \A k \in DOMAIN prediction_cache' :
        (k \notin DOMAIN prediction_cache \/ prediction_cache'[k] # prediction_cache[k])
        => \E r \in ConcurrentSlots :
               /\ req[r].pc = "await" /\ req'[r].pc = "idle"
               /\ req[r].cache_key = k
               /\ req[r].features \in FeaturesOfKey(k)
               /\ prediction_cache'[k] =
                      [result |-> Result(Collected(req[r].order, req[r].tasks),
                                         req[r].features, req[r].start_time),
                       timestamp |-> now]
               /\ ret'.result = prediction_cache'[k].result

\* a call answered by the cache gets the result stored under its own key
HitReturnsOwnKey ==
    (ret' # ret /\ ret'.kind = "result" /\ ret'.hit)
    => /\ _generate_cache_key(ret'.features) \in DOMAIN prediction_cache
       /\ ret'.result = prediction_cache[_generate_cache_key(ret'.features)].result
       /\ ret'.result.explanation.key_factors = key_factors(ret'.features)

\* a request that returns while its key is already cached (a second request
\* of the key recomputed meanwhile) leaves one entry for the key: its own
RecomputeLeavesOneEntry ==
    \A r \in ConcurrentSlots :
        (/\ req[r].pc = "await" /\ req'[r].pc = "idle" /\ ret'.kind = "result"
         /\ req[r].cache_key \in DOMAIN prediction_cache)
        => /\ Cardinality({i \in 1..Len(cache_order') :
                               cache_order'[i] = req[r].cache_key}) = 1
           /\ prediction_cache'[req[r].cache_key] =
                  [result |-> ret'.result, timestamp |-> now]

\* C15: however concurrent predict calls interleave at their awaits, every
\* cache entry is a whole (result, timestamp) pair written by one request of
\* that key from its own scoring calls, a call answered by the cache gets a
\* result built for its own key, and a request that recomputes a key another
\* request has cached meanwhile leaves exactly one entry for the key.
C15_CacheSafeUnderInterleaving ==
    /\ []CacheWellFormed
    /\ [][WrittenByOwner /\ HitReturnsOwnKey /\ RecomputeLeavesOneEntry]_vars

\* two requests of the large transaction both missed and were in flight
\* together; one has returned and cached its result, the other, whose
\* scoring call returned another score, is about to write the same key
C15_Witness ==
    /\ req[1].pc = "idle"
    /\ ret.kind = "result" /\ ~ret.hit
    /\ ret.features = LargeTransaction
    /\ req[2].pc = "await"
    /\ req[2].features = LargeTransaction
    /\ AllTasksDone(2)
    /\ req[2].cache_key \in DOMAIN prediction_cache
    /\ prediction_cache[req[2].cache_key].timestamp > req[2].start_time
    /\ prediction_cache[req[2].cache_key].result = ret.result
    /\ req[2].tasks["xgboost_primary"].state = "ok"
    /\ ret.result.model_predictions["xgboost_primary"]
           # req[2].tasks["xgboost_primary"].value.prediction
    /\ Cardinality(DOMAIN prediction_cache) = 2

\* prediction times confidence of each model result handed to the bench
ResultProducts ==
    [i \in 1..Len(call.predictions) |->
        RMul(call.predictions[i].prediction, call.predictions[i].confidence)]

\* every model result handed to the bench has confidence 0
NoConfidence == \A i \in 1..Len(call.predictions) : call.predictions[i].confidence = Zero

\* C21: under the stacking strategy fraud_probability is the sum of
\* prediction times confidence over the sum of the confidences, and
\* confidence is the mean of the confidences; when every confidence is zero
\* the result is the one the weighted average gives for the same list, and
\* its confidence is still the mean of the confidences.
C21_StackingIsConfidenceWeighted ==
    (Combined_done /\ strategy = "stacking") =>
        /\ call.out.confidence =
               RDiv(RSumSeq(ResultConfidences), Rat(Len(call.predictions), 1))
        /\ ~NoConfidence =>
               call.out.fraud_probability =
                   RDiv(RSumSeq(ResultProducts), RSumSeq(ResultConfidences))
        /\ NoConfidence =>
               /\ call.out.fraud_probability =
                      _weighted_average_ensemble(call.predictions).fraud_probability
               /\ call.out.confidence =
                      _weighted_average_ensemble(call.predictions).confidence

\* two models scored 0.5, so neither has any confidence, and stacking gave
\* the weighted average of the two
C21_Witness ==
    /\ Combined_done
    /\ strategy = "stacking"
    /\ Len(call.predictions) = 2
    /\ NoConfidence
    /\ call.out.fraud_probability = Half
    /\ call.out.confidence = Zero

\* C22: the cache key depends on transaction_id, amount, user_id,
\* merchant_id and payment_method only: the key a request in flight was
\* given when it arrived is the key that any request agreeing with it on
\* these five fields gets now, whatever its other fields.
C22_KeyOfFiveFields ==
    \A r \in Slots :
        req[r].pc = "await" =>
            \A f \in FeatureSet :
                SameKeyFields(f, req[r].features)
                    => _generate_cache_key(f) = req[r].cache_key

\* a request in euros is in flight, time has passed since it arrived, and
\* the same transaction in dollars gets its key
C22_Witness ==
    /\ req[1].pc = "await"
    /\ req[1].features = Transaction(1, "EUR")
    /\ now > req[1].start_time
    /\ _generate_cache_key(Transaction(1, "USD")) = req[1].cache_key

\* the bench has rated call.prediction for call.model_name
Rated == call.fn = "_calculate_model_confidence"

\* the exact value 1 - x, and whether it is a float
Complement(x) == Q(x[2] - x[1], x[2])
IsFloat(x) == Fl(x) = x

\* C23: the confidence of a model for a prediction is
\* min(1, 2 * |prediction - 0.5| * m) for the multiplier m of the model, 0.5
\* for a model the table does not list; so it is 0 at prediction 0.5, it is
\* the confidence of the same model for the prediction 1 - prediction
\* (where that value is a float), and it is at most m.
C23_ConfidenceFormula ==
    Rated =>
        LET m == model_confidence_multiplier(call.model_name)
            p == call.prediction
        IN  /\ call.model_name \notin ModelSet => m = Rat(5, 10)
            /\ call.out = RMin(One, RMul(RMul(Rat(2, 1), RAbs(RSub(p, Half))), m))
            /\ p = Half => call.out = Zero
            /\ IsFloat(Complement(p)) =>
                   _calculate_model_confidence(Complement(p), call.model_name) = call.out
            /\ RLe(call.out, m)

\* with rounding on, a model the table does not list was rated for the
\* prediction 3/32, whose complement 29/32 is a float too
C23_Witness ==
    /\ Rated
    /\ mant_dig = MantDig
    /\ call.model_name = "catboost_secondary"
    /\ call.prediction = <<3, 32>>
    /\ IsFloat(Complement(call.prediction))
    /\ RGt(call.out, Zero)

\* the bench has explained call.features
Explained == call.fn = "_generate_explanation"

\* the numeric entries of features['features'], the names reported in
\* feature_importance, and the value of the entry of a name
NumericFeatures ==
    {i \in 1..Len(call.features.features) : call.features.features[i].numeric}
Reported == call.out.feature_importance
ReportedNames == {Reported[i][1] : i \in 1..Len(Reported)}
ValueOf(name) ==
    call.features.features[CHOOSE i \in NumericFeatures :
                               call.features.features[i].name = name].value

\* C24: feature_importance reports only features whose absolute value
\* exceeds 0.1, at most 10 of them, in descending order of absolute value,
\* and no feature left out has a larger absolute value than one reported.
C24_TopTenByMagnitude ==
    Explained =>
        /\ Len(Reported) <= top_features
        /\ \A name \in ReportedNames :
               RGt(RAbs(ValueOf(name)), importance_threshold)
        /\ \A i, j \in 1..Len(Reported) :
               i < j => RGe(RAbs(ValueOf(Reported[i][1])), RAbs(ValueOf(Reported[j][1])))
        /\ \A i \in NumericFeatures :
               call.features.features[i].name \notin ReportedNames
               => \A name \in ReportedNames :
                      RLe(RAbs(call.features.features[i].value), RAbs(ValueOf(name)))

\* the record_prediction coroutines that have run
Recorded ==
    {i \in DOMAIN coroutines :
        /\ coroutines[i].fn = "record_prediction"
        /\ coroutines[i].state = "done"}

\* C25: every record_prediction the endpoint scheduled completes without
\* error, and the internal prediction counter and the Prometheus ensemble
\* counter advance together, once per recorded prediction.
C25_EveryPredictionRecorded ==
    /\ \A i \in Recorded : coroutines[i].error = None
    /\ metrics_collector.prediction_count = Cardinality(Recorded)
    /\ metrics_collector.predictions_total = Cardinality(Recorded)

\* the coroutine i is reload_all_models and has taken model_lock
ReloadAllStarted(i) ==
    /\ i \in DOMAIN coroutines
    /\ coroutines[i].fn = "reload_all_models"
    /\ coroutines[i].pc # "scheduled"

\* the coroutine i has ended and does not hold model_lock
Ended(i) ==
    /\ i \in DOMAIN coroutines
    /\ coroutines[i].pc = "done"
    /\ model_lock # i

\* C26: reload_all_models, once started, eventually terminates and
\* releases model_lock.
C26_ReloadAllTerminates ==
    \A i \in ManagerTasks : ReloadAllStarted(i) ~> Ended(i)

\* C27: when reload_model ends with the exception of a failed load, the
\* model it found registered before the reload is still registered
\* (is_model_loaded stays true).
C27_FailedReloadKeepsModel ==
    [][\A i \in DOMAIN coroutines :
          (/\ coroutines[i].fn = "reload_model"
           /\ coroutines[i].pc = "_load_single_model"
           /\ coroutines'[i].pc = "done"
           /\ coroutines'[i].error # None
           /\ coroutines[i].removed)
          => coroutines[i].model_name \in models']_vars

\* a predict call returns a result in this step
Returns == ret' # ret /\ ret'.kind = "result"

\* the weights a result was computed with, as its explanation reports them,
\* are those of the weight table
UsesWeights(result, weights) ==
    \A m \in DOMAIN result.explanation.model_contributions :
        result.explanation.model_contributions[m].weight = Get(weights, m, Zero)

\* C28 as stated: every result predict returns is computed with the weight
\* table of the moment, a result answered from the cache included.
C28_EveryResultUsesCurrentWeights ==
    [][Returns => UsesWeights(ret'.result, model_weights')]_vars

\* C28, amended: a predict call that misses the cache returns a result
\* computed with the weight table of the moment; a hit returns the cached
\* result as it was stored, whatever the weight table is now.
C28_MissUsesCurrentWeights ==
    [][Returns =>
          IF ret'.hit
          THEN ret'.result = prediction_cache[_generate_cache_key(ret'.features)].result
          ELSE UsesWeights(ret'.result, model_weights')]_vars

\* update_model_weights has changed the table and a miss has been answered
\* with the new weights, which are not those of the startup
C28_Witness ==
    /\ ret.kind = "result"
    /\ ~ret.hit
    /\ UsesWeights(ret.result, model_weights)
    /\ ~UsesWeights(ret.result, _get_model_weights)

\* C29: _generate_cache_key is injective on the five fingerprint fields: a
\* request that differs from the keyed one in transaction_id, amount,
\* user_id, merchant_id or payment_method has a different key.
C29_KeyInjective ==
    call.fn = "_generate_cache_key" =>
        \A other \in KeyInputs :
            _generate_cache_key(other) = call.out
            => \A field \in {"transaction_id", "amount", "user_id", "merchant_id",
                              "payment_method"} :
                   other[field] = call.features[field]

\* C30: in a result of predict, decision and risk_level disagree only
\* through the confidence gate: with confidence >= confidence_threshold the
\* decision is DECLINE exactly when the risk level is CRITICAL, REVIEW
\* exactly when HIGH, APPROVE_WITH_MONITORING exactly when MEDIUM and APPROVE
\* exactly when LOW or VERY_LOW; with confidence below the threshold the
\* decision is REVIEW whatever the risk level.
C30_DisagreeOnlyThroughGate ==
    Combined_done =>
        IF RGe(call.out.confidence, confidence_threshold)
        THEN /\ call.out.decision = "DECLINE" <=> call.out.risk_level = "CRITICAL"
             /\ call.out.decision = "REVIEW" <=> call.out.risk_level = "HIGH"
             /\ call.out.decision = "APPROVE_WITH_MONITORING"
                    <=> call.out.risk_level = "MEDIUM"
             /\ call.out.decision = "APPROVE"
                    <=> call.out.risk_level \in {"LOW", "VERY_LOW"}
        ELSE call.out.decision = "REVIEW"

\* a result of MEDIUM risk whose confidence is below the threshold: its
\* decision is REVIEW, not APPROVE_WITH_MONITORING
C30_Witness ==
    /\ Combined_done
    /\ RLt(call.out.confidence, confidence_threshold)
    /\ call.out.risk_level = "MEDIUM"
    /\ call.out.decision = "REVIEW"

====
